---- MODULE Spec2Model ----
(***************************************************************************)
(* Model of spellingbeesolver.cpp, the NY Times Spelling Bee solver.       *)
(*                                                                         *)
(* A std::string is a sequence of characters, a character a one-character  *)
(* string.  A file is the sequence of characters it holds, an input file   *)
(* stream that text with a read position and the eof/fail bits.            *)
(* Standard input is the environment: every std::getline on std::cin draws *)
(* what the user typed (a line, a last line without newline, or the end of *)
(* input).                                                                 *)
(***************************************************************************)
EXTENDS Integers, Sequences, FiniteSets

VARIABLES
    pc,                 \* position of the program
    cinEof,             \* std::cin has its eofbit set
    files,              \* the file system: name -> text, or NoFile
    entered,            \* getDictionaryNameFromUser's local dictionaryFilename
    dictionaryFilename, \* main's dictionaryFilename
    dictionary,         \* the std::ifstream over the dictionary
    letters,            \* the letter hive
    middle,             \* the middle character
    word,               \* solveSpellingBee's local word
    result,             \* the result vector
    nWordsFound,        \* what solveSpellingBee returned
    line,               \* main's local line
    out,                \* state of writeResultToFile's std::ofstream
    cout,               \* the words main printed
    valid,              \* what a direct call of isValidWord returned
    passed,             \* the result vector as a caller handed it to solveSpellingBee
    first,              \* the result vector after a caller's first scan
    calls               \* number of scans a caller started

vars == <<pc, cinEof, files, entered, dictionaryFilename, dictionary, letters,
          middle, word, result, nWordsFound, line, out, cout, valid, passed,
          first, calls>>

-----------------------------------------------------------------------------
(* Bounds of the model *)

MaxLines == 2        \* lines of a dictionary file
MaxLetters == 2      \* characters of the line typed at the letters prompt
MaxWordLen == 5      \* characters of a word handed directly to isValidWord
MaxCalls == 2        \* calls of solveSpellingBee by one caller

-----------------------------------------------------------------------------
(* Characters and strings *)

NL == "\n"
CR == "\r"
SP == " "
NUL == "NUL"         \* the terminator input[0] yields for an empty string
NoFile == <<"NoFile">>   \* what the file system holds under a name without a file
None == "None"

kMinWordLength == 4

DEFAULT_DICT == <<"d","i","c","t","i","o","n","a","r","y",".","t","x","t">>

npos == -1

toupperIdentity(ch) == ch

toupper(ch) == CASE ch = "a" -> "A"
                 [] ch = "b" -> "B"
                 [] ch = "y" -> "Y"
                 [] ch = "n" -> "N"
                 [] OTHER -> ch

tolower(ch) == CASE ch = "A" -> "a"
                 [] ch = "B" -> "b"
                 [] ch = "Y" -> "y"
                 [] ch = "N" -> "n"
                 [] OTHER -> ch

IsLower(ch) == ch \in {"a", "b", "y", "n"}

IsSpace(ch) == ch \in {SP, CR, "\t"}

Range(s) == {s[i] : i \in 1..Len(s)}

\* All sequences over S of length at most n
RECURSIVE SeqsUpTo(_, _)
SeqsUpTo(S, n) ==
    IF n = 0 THEN {<<>>}
    ELSE LET shorter == SeqsUpTo(S, n - 1)
         IN  shorter \cup {Append(s, x) : s \in {t \in shorter : Len(t) = n - 1}, x \in S}

\* s[0] of a std::string: the character, or the terminator when s is empty
FirstChar(s) == IF Len(s) = 0 THEN NUL ELSE s[1]

\* std::string::find(ch): the first position of ch in s (from 1), or npos
find(s, ch) ==
    IF \E i \in 1..Len(s) : s[i] = ch
    THEN CHOOSE i \in 1..Len(s) : s[i] = ch /\ \A j \in 1..(i - 1) : s[j] # ch
    ELSE npos

\* std::unordered_set<char>::count
count(set, ch) == IF ch \in set THEN 1 ELSE 0

-----------------------------------------------------------------------------
(* isValidWord *)

isValidWordLongerThanMin(w, L, m) ==
    IF Len(w) <= kMinWordLength THEN FALSE
    ELSE IF find(w, m) = npos THEN FALSE
    ELSE \A i \in 1..Len(w) : count(L, w[i]) # 0

isValidWordNoMiddle(w, L, m) ==
    IF Len(w) < kMinWordLength THEN FALSE
    ELSE \A i \in 1..Len(w) : count(L, w[i]) # 0

isValidWord(w, L, m) ==
    IF Len(w) < kMinWordLength THEN FALSE
    ELSE IF find(w, m) = npos THEN FALSE
    ELSE \A i \in 1..Len(w) : count(L, w[i]) # 0

-----------------------------------------------------------------------------
(* Files and streams *)

\* The text of a file holding the given lines, each ended by a newline
RECURSIVE Unlines(_)
Unlines(ls) ==
    IF ls = <<>> THEN <<>> ELSE Head(ls) \o <<NL>> \o Unlines(Tail(ls))

\* Position of the first newline of text at or after p, Len(text) + 1 if none
RECURSIVE LineEnd(_, _)
LineEnd(text, p) ==
    IF p > Len(text) THEN Len(text) + 1
    ELSE IF text[p] = NL THEN p
    ELSE LineEnd(text, p + 1)

\* Leading and trailing whitespace removed
RECURSIVE Trim(_)
Trim(s) ==
    IF s = <<>> THEN s
    ELSE IF IsSpace(s[1]) THEN Trim(Tail(s))
    ELSE IF IsSpace(s[Len(s)]) THEN Trim(SubSeq(s, 1, Len(s) - 1))
    ELSE s

\* The names the file system is asked about
FileNames == {DEFAULT_DICT, <<"w">>, <<"o">>, <<"y">>, <<"Y">>}

\* bool(std::ifstream(filename))
fileExists(fs, filename) == filename \in DOMAIN fs /\ fs[filename] # NoFile

\* std::ifstream(filename): the stream, failed when the file cannot be opened
OpenIfstream(fs, filename) ==
    IF fileExists(fs, filename)
    THEN [text |-> fs[filename], pos |-> 1, eof |-> FALSE, fail |-> FALSE]
    ELSE [text |-> <<>>, pos |-> 1, eof |-> FALSE, fail |-> TRUE]

\* std::getline(stream, str): [ok, str, stream] after the call; cur is str before
getlineTrimmed(s, cur) ==
    IF s.fail \/ s.eof
    THEN [ok |-> FALSE, str |-> cur, stream |-> [s EXCEPT !.fail = TRUE]]
    ELSE LET e == LineEnd(s.text, s.pos)
             got == Trim(SubSeq(s.text, s.pos, e - 1))
         IN  IF e <= Len(s.text)
             THEN [ok |-> TRUE, str |-> got, stream |-> [s EXCEPT !.pos = e + 1]]
             ELSE [ok |-> e > s.pos, str |-> got,
                   stream |-> [s EXCEPT !.pos = e, !.eof = TRUE,
                                        !.fail = ~(e > s.pos)]]

getline(s, cur) ==
    IF s.fail \/ s.eof
    THEN [ok |-> FALSE, str |-> cur, stream |-> [s EXCEPT !.fail = TRUE]]
    ELSE LET e == LineEnd(s.text, s.pos)
             got == SubSeq(s.text, s.pos, e - 1)
         IN  IF e <= Len(s.text)
             THEN [ok |-> TRUE, str |-> got, stream |-> [s EXCEPT !.pos = e + 1]]
             ELSE [ok |-> e > s.pos, str |-> got,
                   stream |-> [s EXCEPT !.pos = e, !.eof = TRUE,
                                        !.fail = ~(e > s.pos)]]

\* Every line std::getline reads from a text, in order
RECURSIVE ReadLines(_)
ReadLines(s) ==
    LET r == getline(s, <<>>)
    IN  IF r.ok THEN <<r.str>> \o ReadLines(r.stream) ELSE <<>>

LinesOf(text) == ReadLines([text |-> text, pos |-> 1, eof |-> FALSE, fail |-> FALSE])

\* std::getline(std::cin, str) when the user's input is `typed`:
\* typed.kind is "line" (a line ended by newline), "last" (a non-empty last
\* line without newline) or "end" (no more input).
Typed(Lines) ==
    {[kind |-> "line", text |-> l] : l \in Lines}
        \cup {[kind |-> "last", text |-> l] : l \in Lines \ {<<>>}}
        \cup {[kind |-> "end", text |-> <<>>]}

CinStr(typed, cur) == IF cinEof THEN cur ELSE typed.text

CinEofAfter(typed) == cinEof \/ typed.kind # "line"

-----------------------------------------------------------------------------
(* What the environment supplies *)

\* Lines a dictionary file may hold
DictLines ==
    { <<"A","B","B","A">>, <<"A","B","A">>, <<"B","B","B","B">>,
      <<"a","a","a","a">>, <<"A","B","B","A",CR>>, <<SP,"A","B","B","A">>, <<>> }

\* Texts of a dictionary file: its lines, the last with or without a newline
DictTexts ==
    LET seqs == SeqsUpTo(DictLines, MaxLines)
    IN  {Unlines(ls) : ls \in seqs}
            \cup {SubSeq(Unlines(ls), 1, Len(Unlines(ls)) - 1) : ls \in seqs \ {<<>>}}

NameInputs == {<<>>, <<"w">>, <<"m">>, DEFAULT_DICT}
InputChars == {"a", "B"}
LetterInputs == SeqsUpTo(InputChars, MaxLetters) \cup {<<"a", "B", SP>>, <<"B", CR>>}
Answers == {<<>>, <<"y">>, <<"Y">>, <<"n">>}
OutNames == {<<>>, <<"w">>, <<"o">>}

NoStream == [text |-> <<>>, pos |-> 1, eof |-> FALSE, fail |-> TRUE]

-----------------------------------------------------------------------------
(* The program *)

Init ==
    /\ pc = "start"
    /\ cinEof = FALSE
    /\ \E text \in DictTexts, there \in SUBSET {DEFAULT_DICT, <<"w">>} :
           files = [f \in FileNames |-> IF f \in there THEN text ELSE NoFile]
    /\ entered = <<>>
    /\ dictionaryFilename = <<>>
    /\ dictionary = NoStream
    /\ letters = {}
    /\ middle = NUL
    /\ word = <<>>
    /\ result = <<>>
    /\ nWordsFound = 0
    /\ line = <<>>
    /\ out = "unopened"
    /\ cout = <<>>
    /\ valid = None
    /\ passed = <<>>
    /\ first = <<>>
    /\ calls = 0

\* getDictionaryNameFromUser, lines 144-148: the prompt and the first getline
PromptDictionaryName ==
    /\ pc = "start"
    /\ \E typed \in Typed(NameInputs) :
           /\ entered' = CinStr(typed, entered)
           /\ cinEof' = CinEofAfter(typed)
    /\ pc' = "checkName"
    /\ UNCHANGED <<files, dictionaryFilename, dictionary, letters, middle, word,
                   result, nWordsFound, line, out, cout, valid, passed, first, calls>>

\* The condition of the while loop of getDictionaryNameFromUser, line 150
MustRepromptIgnoringEmpty(fs, name) == ~fileExists(fs, name)

MustReprompt(fs, name) == name # <<>> /\ ~fileExists(fs, name)

\* getDictionaryNameFromUser, lines 150-155: one turn of the loop
RepromptDictionaryName ==
    /\ pc = "checkName"
    /\ MustReprompt(files, entered)
    /\ \E typed \in Typed(NameInputs) :
           /\ entered' = CinStr(typed, entered)
           /\ cinEof' = CinEofAfter(typed)
    /\ UNCHANGED <<pc, files, dictionaryFilename, dictionary, letters, middle, word,
                   result, nWordsFound, line, out, cout, valid, passed, first, calls>>

\* getDictionaryNameFromUser, line 157, and main, lines 108-109
ReturnDictionaryName ==
    /\ pc = "checkName"
    /\ ~MustReprompt(files, entered)
    /\ dictionaryFilename' = IF entered # <<>> THEN entered ELSE DEFAULT_DICT
    /\ dictionary' = OpenIfstream(files, dictionaryFilename')
    /\ pc' = "letters"
    /\ UNCHANGED <<cinEof, files, entered, letters, middle, word, result,
                   nWordsFound, line, out, cout, valid, passed, first, calls>>

\* getLettersFromUser, lines 160-171, and main, lines 111-114
getLettersFromUser ==
    /\ pc = "letters"
    /\ \E typed \in Typed(LetterInputs) :
           LET input == CinStr(typed, <<>>)
           IN  /\ letters' = {toupper(input[i]) : i \in 1..Len(input)}
               /\ middle' = toupper(FirstChar(input))
               /\ cinEof' = CinEofAfter(typed)
    /\ result' = <<>>
    /\ pc' = "scan"
    /\ UNCHANGED <<files, entered, dictionaryFilename, dictionary, word,
                   nWordsFound, line, out, cout, valid, passed, first, calls>>

\* std::vector::push_back
push_front(v, x) == <<x>> \o v

push_back(v, x) == Append(v, x)

\* solveSpellingBee, lines 177-181: one turn of the loop
ScanLine ==
    /\ pc = "scan"
    /\ LET r == getline(dictionary, word)
       IN  /\ r.ok
           /\ word' = r.str
           /\ dictionary' = r.stream
           /\ result' = IF isValidWord(r.str, letters, middle)
                        THEN push_back(result, r.str)
                        ELSE result
    /\ UNCHANGED <<pc, cinEof, files, entered, dictionaryFilename, letters, middle,
                   nWordsFound, line, out, cout, valid, passed, first, calls>>

\* std::vector::size
sizePlusOne(v) == Len(v) + 1

size(v) == Len(v)

\* solveSpellingBee, lines 177 and 183: getline fails, the function returns
solveSpellingBeeReturn(next) ==
    /\ pc = "scan"
    /\ LET r == getline(dictionary, word)
       IN  /\ ~r.ok
           /\ word' = r.str
           /\ dictionary' = r.stream
    /\ nWordsFound' = size(result)
    /\ pc' = next
    /\ UNCHANGED <<cinEof, files, entered, dictionaryFilename, letters, middle,
                   result, line, out, cout, valid, passed, calls>>

\* main, line 115: the call returns into main
ScanEnd ==
    /\ solveSpellingBeeReturn("savePrompt")
    /\ UNCHANGED first

IsYes(l) == l # <<>> /\ tolower(l[1]) = "y"

\* main, lines 117-122: the save prompt
AskSave ==
    /\ pc = "savePrompt"
    /\ \E typed \in Typed(Answers) :
           /\ line' = CinStr(typed, line)
           /\ cinEof' = CinEofAfter(typed)
    /\ pc' = IF IsYes(line') THEN "askFilename" ELSE "askPrint"
    /\ UNCHANGED <<files, entered, dictionaryFilename, dictionary, letters, middle,
                   word, result, nWordsFound, out, cout, valid, passed, first, calls>>

\* What writeResultToFile streams into the file, lines 190-192
RECURSIVE FileTextNoNewline(_)
FileTextNoNewline(v) ==
    IF v = <<>> THEN <<>> ELSE Head(v) \o FileTextNoNewline(Tail(v))

FileText(v) == Unlines(v)

\* writeResultToFile, lines 186-193; opened tells whether the ofstream opened
writeResultToFile(fs, filename, v, opened) ==
    IF opened THEN [fs EXCEPT ![filename] = FileText(v)] ELSE fs

\* main, lines 123-125 and 139-140: the filename prompt, writeResultToFile, return
SaveToFile ==
    /\ pc = "askFilename"
    /\ \E typed \in Typed(OutNames) :
           /\ line' = CinStr(typed, line)
           /\ cinEof' = CinEofAfter(typed)
    /\ \E opened \in BOOLEAN :
           /\ opened => line' \in FileNames
           /\ out' = IF opened THEN "written" ELSE "failed"
           /\ files' = writeResultToFile(files, line', result, opened)
    /\ pc' = "done"
    /\ UNCHANGED <<entered, dictionaryFilename, dictionary, letters, middle, word,
                   result, nWordsFound, cout, valid, passed, first, calls>>

\* main, lines 127-140: the print prompt, the listing, return
AskPrint ==
    /\ pc = "askPrint"
    /\ \E typed \in Typed(Answers) :
           /\ line' = CinStr(typed, line)
           /\ cinEof' = CinEofAfter(typed)
    /\ cout' = IF IsYes(line') THEN result ELSE cout
    /\ pc' = "done"
    /\ UNCHANGED <<files, entered, dictionaryFilename, dictionary, letters, middle,
                   word, result, nWordsFound, out, valid, passed, first, calls>>

Next ==
    \/ PromptDictionaryName
    \/ RepromptDictionaryName
    \/ ReturnDictionaryName
    \/ getLettersFromUser
    \/ ScanLine
    \/ ScanEnd
    \/ AskSave
    \/ SaveToFile
    \/ AskPrint

Spec == Init /\ [][Next]_vars

-----------------------------------------------------------------------------
(* isValidWord called directly, on any word, letter set and middle character *)

WordChars == {"A", "B", "a"}

InitValid ==
    /\ pc = "isValidWord"
    /\ word \in SeqsUpTo(WordChars, MaxWordLen)
    /\ letters \in SUBSET WordChars
    /\ middle \in WordChars \cup {NUL}
    /\ valid = None
    /\ cinEof = FALSE
    /\ files = [f \in FileNames |-> NoFile]
    /\ entered = <<>>
    /\ dictionaryFilename = <<>>
    /\ dictionary = NoStream
    /\ result = <<>>
    /\ nWordsFound = 0
    /\ line = <<>>
    /\ out = "unopened"
    /\ cout = <<>>
    /\ passed = <<>>
    /\ first = <<>>
    /\ calls = 0

\* isValidWord, lines 199-209: the call and its return value
CallIsValidWord ==
    /\ pc = "isValidWord"
    /\ valid' = isValidWord(word, letters, middle)
    /\ pc' = "returned"
    /\ UNCHANGED <<cinEof, files, entered, dictionaryFilename, dictionary, letters,
                   middle, word, result, nWordsFound, line, out, cout, passed,
                   first, calls>>

NextValid == CallIsValidWord

SpecValid == InitValid /\ [][NextValid]_vars

-----------------------------------------------------------------------------
(* solveSpellingBee called by any caller: the result vector handed in may    *)
(* hold words already, and the caller may call again.                       *)

HiveChars == {"A", "B"}

\* Result vectors a caller may hand in
Prefilled == {<<>>, << <<"A","B","B","A">> >>}

InitSolve ==
    /\ pc = "scan"
    /\ \E text \in DictTexts \cup {NoFile} :
           files = [f \in FileNames |-> IF f = <<"w">> THEN text ELSE NoFile]
    /\ dictionaryFilename = <<"w">>
    /\ dictionary = OpenIfstream(files, dictionaryFilename)
    /\ letters \in SUBSET HiveChars
    /\ middle \in HiveChars
    /\ result \in Prefilled
    /\ passed = result
    /\ first = <<>>
    /\ calls = 1
    /\ word = <<>>
    /\ nWordsFound = 0
    /\ cinEof = FALSE
    /\ entered = <<>>
    /\ line = <<>>
    /\ out = "unopened"
    /\ cout = <<>>
    /\ valid = None

\* solveSpellingBee, line 183: the call returns to the caller
CallerScanEnd ==
    /\ solveSpellingBeeReturn("returned")
    /\ first' = IF calls = 1 THEN result ELSE first

\* solveSpellingBee, lines 173-176: the caller calls again, with the very same
\* stream and vector, or with a stream newly opened on the same file and
\* either the same vector or a vector as handed in to the call before
CallAgain ==
    /\ pc = "returned"
    /\ calls < MaxCalls
    /\ \E reopen \in BOOLEAN, reuse \in BOOLEAN :
           /\ reopen \/ reuse
           /\ dictionary' = IF reopen THEN OpenIfstream(files, dictionaryFilename)
                            ELSE dictionary
           /\ result' = IF reuse THEN result ELSE passed
    /\ passed' = result'
    /\ calls' = calls + 1
    /\ word' = <<>>
    /\ pc' = "scan"
    /\ UNCHANGED <<cinEof, files, entered, dictionaryFilename, letters, middle,
                   nWordsFound, line, out, cout, valid, first>>

NextSolve ==
    \/ ScanLine
    \/ CallerScanEnd
    \/ CallAgain

SpecSolve == InitSolve /\ [][NextSolve]_vars

-----------------------------------------------------------------------------
(* Properties *)

\* The lines of a text, split at its newlines (a last line without newline
\* counts, an empty remainder does not)
RECURSIVE SplitLines(_)
SplitLines(text) ==
    IF text = <<>> THEN <<>>
    ELSE LET e == LineEnd(text, 1)
         IN  <<SubSeq(text, 1, e - 1)>> \o SplitLines(SubSeq(text, e + 1, Len(text)))

\* The words of ls that isValidWord accepts, in order
RECURSIVE Accepted(_, _, _)
Accepted(ls, L, m) ==
    IF ls = <<>> THEN <<>>
    ELSE (IF isValidWord(Head(ls), L, m) THEN <<Head(ls)>> ELSE <<>>)
             \o Accepted(Tail(ls), L, m)

AllLower(w) == \A i \in 1..Len(w) : IsLower(w[i])

AfterScan == pc \in {"savePrompt", "askFilename", "askPrint", "done"}

C2_ResultIsAcceptedLines ==
    /\ [](AfterScan =>
             result = Accepted(SplitLines(dictionary.text), letters, middle))
    /\ [](pc = "scan" =>
             result = Accepted(SplitLines(SubSeq(dictionary.text, 1, dictionary.pos - 1)),
                               letters, middle))
    /\ [][pc = "scan" =>
             \/ result' = result
             \/ \E w \in Range(result') : result' = Append(result, w)]_vars

C2_Witness ==
    /\ pc = "savePrompt"
    /\ result = << <<"B","B","B","B">>, <<"A","B","B","A">> >>

\* C3: the value solveSpellingBee returns is the number of words that call
\* found, whatever the result vector held when it was passed in.
C3_ReturnsWordsFound ==
    pc = "returned" => nWordsFound = Len(result) - Len(passed)

\* C4: a second run of solveSpellingBee over the same dictionary, with the same
\* letters and middle, leaves the result list as it was after the first run.
C4_SecondRunSameResult ==
    (pc = "returned" /\ calls >= 2) => result = first

\* C5: getDictionaryNameFromUser prompts again after every line that is
\* non-empty and names no existing file, and returns on the first line that
\* is empty or names an existing file: DEFAULT_DICT for the empty line, the
\* line itself otherwise; a non-empty name it returns exists.
C5_DictionaryName ==
    /\ [][pc = "checkName" =>
             IF entered # <<>> /\ ~fileExists(files, entered)
             THEN pc' = "checkName" /\ dictionaryFilename' = dictionaryFilename
             ELSE /\ pc' = "letters"
                  /\ dictionaryFilename' =
                         IF entered = <<>> THEN DEFAULT_DICT ELSE entered]_vars
    /\ [](pc = "letters" =>
             \/ entered = <<>> /\ dictionaryFilename = DEFAULT_DICT
             \/ /\ entered # <<>>
                /\ dictionaryFilename = entered
                /\ fileExists(files, entered))

C5_Witness ==
    /\ pc = "letters"
    /\ cinEof = FALSE
    /\ entered = <<"w">>
    /\ dictionaryFilename = <<"w">>
    /\ ~fileExists(files, DEFAULT_DICT)

\* C6: when the dictionary cannot be opened, solveSpellingBee returns at once,
\* appends nothing and returns 0, and main goes on to the save prompt.
C6_UnopenedDictionary ==
    /\ [][(pc = "scan" /\ ~fileExists(files, dictionaryFilename)) =>
             /\ pc' = "savePrompt"
             /\ result' = <<>>
             /\ nWordsFound' = 0]_vars
    /\ []((pc \in {"scan", "savePrompt", "askFilename", "askPrint"}
             /\ ~fileExists(files, dictionaryFilename)) =>
             result = <<>> /\ nWordsFound = 0)

C6_Witness ==
    /\ pc = "savePrompt"
    /\ dictionaryFilename = DEFAULT_DICT
    /\ ~fileExists(files, DEFAULT_DICT)
    /\ letters = {"A", "B"}
    /\ result = <<>>
    /\ nWordsFound = 0

NewlinesIn(text) == Cardinality({i \in 1..Len(text) : text[i] = NL})

\* C7: the file writeResultToFile wrote, read back line by line, gives the
\* result list: one line per word, in order, each ended by a newline, and
\* nothing of what the file held before.
C7_FileRoundTrip ==
    (pc = "done" /\ out = "written") =>
        /\ LinesOf(files[line]) = result
        /\ NewlinesIn(files[line]) = Len(result)
        /\ Len(files[line]) > 0 => files[line][Len(files[line])] = NL

C7_Witness ==
    /\ pc = "done"
    /\ out = "written"
    /\ Len(result) = 2
    /\ line = dictionaryFilename
    /\ dictionary.text # files[line]

\* The lines of ls with leading and trailing whitespace removed
RECURSIVE TrimAll(_)
TrimAll(ls) == IF ls = <<>> THEN <<>> ELSE <<Trim(Head(ls))>> \o TrimAll(Tail(ls))

\* C8 as stated: the scan evaluates and stores the trimmed lines.
C8_TrimmedLines ==
    pc = "savePrompt" =>
        result = Accepted(TrimAll(SplitLines(dictionary.text)), letters, middle)

\* C8, amended: the scan evaluates every line as read, whitespace included: a
\* line with leading or trailing whitespace is stored, unchanged, exactly
\* when it passes isValidWord as it is, and its trimmed form is stored only
\* if that form is itself a line of the dictionary.
C8_UntrimmedLines ==
    pc = "savePrompt" =>
        \A l \in Range(SplitLines(dictionary.text)) :
            Trim(l) # l =>
                /\ (l \in Range(result)) <=> isValidWord(l, letters, middle)
                /\ Trim(l) \in Range(result) =>
                       Trim(l) \in Range(SplitLines(dictionary.text))

C8_Witness ==
    /\ pc = "savePrompt"
    /\ SplitLines(dictionary.text) = << <<"A","B","B","A",CR>>, <<SP,"A","B","B","A">> >>
    /\ letters = {"A", "B", SP}
    /\ middle = "A"
    /\ result = << <<SP,"A","B","B","A">> >>

\* C9: with the letters and the middle letter from getLettersFromUser, the
\* scan rejects every dictionary word of lower-case letters only, so a
\* lower-case dictionary gives an empty result list.
C9_LowerCaseRejected ==
    (pc = "scan" \/ AfterScan) =>
        /\ \A i \in 1..Len(result) : ~AllLower(result[i])
        /\ (\A l \in Range(SplitLines(dictionary.text)) : AllLower(l)) => result = <<>>

C9_Witness ==
    /\ pc = "savePrompt"
    /\ SplitLines(dictionary.text) = << <<"a","a","a","a">>, <<"a","a","a","a">> >>
    /\ letters = {"A"}
    /\ middle = "A"
    /\ result = <<>>

====
